---------------------------- MODULE Spec2Model ----------------------------
(***************************************************************************)
(* DNS TSIG support (dns/tsig.py): Key, the HMAC and GSS engines, the      *)
(* digest builder _digest, and the two operations sign and validate.       *)
(*                                                                         *)
(* Byte strings are sequences of integers 0..255.  A DNS name is the       *)
(* sequence of its labels (each a byte string), the last one the empty     *)
(* root label.  Python's None for the optional time argument is the value  *)
(* None below; a byte string argument that is None or b'' is <<>> (the     *)
(* code only ever tests such arguments for truth).  An exception is the    *)
(* name of its class in the field "raised" of a result, "" when the call   *)
(* returned.                                                               *)
(*                                                                         *)
(* The hash primitives of hashlib/hmac are outside the repository: the     *)
(* keyed digest is a deterministic stand-in over (digestmod, key, message) *)
(* that has the primitive's digest size.                                   *)
(***************************************************************************)
EXTENDS Integers, Sequences, FiniteSets, TLC

VARIABLES
    key,      \* the Key object of the exchange
    pc,       \* "start" before the Key is constructed, "ready" after
    sctx,     \* the continuation context the signing side holds
    vctx,     \* the continuation context the validating side holds
    prev,     \* the MAC of the message signed before the last one
    nsigned,  \* how many messages were signed
    scall,    \* the arguments of the last call of sign
    sret,     \* what it returned or raised
    vcall,    \* the arguments of the last call of validate
    vret,     \* what it returned or raised
    eng,      \* an engine used directly: update() calls, then sign()
    emac      \* what the engine's sign() returned, and the bytes fed until then

vars == <<key, pc, sctx, vctx, prev, nsigned, scall, sret, vcall, vret, eng, emac>>

-----------------------------------------------------------------------------
(* Bounds of the model *)

\* messages signed in one sequence
MaxMsgs == 3

\* messages signed and validated in one exchange
MaxRounds == 2

\* bytes fed to an engine that is used directly
MaxData == 4

-----------------------------------------------------------------------------
(* Bytes and struct.pack *)

None == -1

Min(a, b) == IF a < b THEN a ELSE b

\* Python's s[a:b] for 0 <= a, 0 <= b (indices clipped to the length)
Slice(s, a, b) == SubSeq(s, a + 1, Min(b, Len(s)))

\* struct.pack('!H', x)
PackH(x) == <<(x \div 256) % 256, x % 256>>

\* struct.pack('!I', x)
PackI(x) == <<(x \div 16777216) % 256, (x \div 65536) % 256,
              (x \div 256) % 256, x % 256>>

\* struct.unpack('!H', b)
UnpackH(b) == b[1] * 256 + b[2]

abs(x) == IF x < 0 THEN -x ELSE x

-----------------------------------------------------------------------------
(* dns.name: names, equality and the digestable form *)

Lower(b) == IF b >= 65 /\ b <= 90 THEN b + 32 ELSE b

LowerLabel(l) == [i \in 1..Len(l) |-> Lower(l[i])]

\* Name.__eq__: label-wise, ignoring ASCII case
NameEq(a, b) ==
    /\ Len(a) = Len(b)
    /\ \A i \in 1..Len(a) : LowerLabel(a[i]) = LowerLabel(b[i])

RECURSIVE to_digestable(_)
\* Name.to_digestable(): each label lower-cased behind its length byte
to_digestable(n) ==
    IF n = <<>> THEN <<>>
    ELSE <<Len(Head(n))>> \o LowerLabel(Head(n)) \o to_digestable(Tail(n))

-----------------------------------------------------------------------------
(* TSIG algorithms *)

\* HMAC-MD5.SIG-ALG.REG.INT
HMAC_MD5 == <<<<72, 77, 65, 67, 45, 77, 68, 53>>, <<83, 73, 71, 45, 65, 76, 71>>,
              <<82, 69, 71>>, <<73, 78, 84>>, <<>>>>
\* hmac-sha1
HMAC_SHA1 == <<<<104, 109, 97, 99, 45, 115, 104, 97, 49>>, <<>>>>
\* hmac-sha224
HMAC_SHA224 == <<<<104, 109, 97, 99, 45, 115, 104, 97, 50, 50, 52>>, <<>>>>
\* hmac-sha256
HMAC_SHA256 == <<<<104, 109, 97, 99, 45, 115, 104, 97, 50, 53, 54>>, <<>>>>
\* hmac-sha256-128
HMAC_SHA256_128 ==
    <<<<104, 109, 97, 99, 45, 115, 104, 97, 50, 53, 54, 45, 49, 50, 56>>, <<>>>>
\* hmac-sha384
HMAC_SHA384 == <<<<104, 109, 97, 99, 45, 115, 104, 97, 51, 56, 52>>, <<>>>>
\* hmac-sha384-192
HMAC_SHA384_192 ==
    <<<<104, 109, 97, 99, 45, 115, 104, 97, 51, 56, 52, 45, 49, 57, 50>>, <<>>>>
\* hmac-sha512
HMAC_SHA512 == <<<<104, 109, 97, 99, 45, 115, 104, 97, 53, 49, 50>>, <<>>>>
\* hmac-sha512-256
HMAC_SHA512_256 ==
    <<<<104, 109, 97, 99, 45, 115, 104, 97, 53, 49, 50, 45, 50, 53, 54>>, <<>>>>
\* gss-tsig
GSS_TSIG == <<<<103, 115, 115, 45, 116, 115, 105, 103>>, <<>>>>

default_algorithm == HMAC_SHA256

\* dns.rdataclass.ANY
ANY == 255

\* dns.rcode values of the TSIG errors
BADSIG == 16
BADKEY == 17
BADTIME == 18
BADTRUNC == 22

-----------------------------------------------------------------------------
(* hashlib / hmac *)

\* HMACTSig._hashes: the digestmod and the truncation in bits (0: none)
_hashes ==
    << [alg |-> HMAC_SHA1,       hash |-> "sha1",   size |-> 0],
       [alg |-> HMAC_SHA224,     hash |-> "sha224", size |-> 0],
       [alg |-> HMAC_SHA256,     hash |-> "sha256", size |-> 0],
       [alg |-> HMAC_SHA256_128, hash |-> "sha256", size |-> 128],
       [alg |-> HMAC_SHA384,     hash |-> "sha384", size |-> 0],
       [alg |-> HMAC_SHA384_192, hash |-> "sha384", size |-> 192],
       [alg |-> HMAC_SHA512,     hash |-> "sha512", size |-> 0],
       [alg |-> HMAC_SHA512_256, hash |-> "sha512", size |-> 256],
       [alg |-> HMAC_MD5,        hash |-> "md5",    size |-> 0] >>

\* the digest size in bytes of each hashlib primitive
digest_size(h) ==
    CASE h = "md5" -> 16
      [] h = "sha1" -> 20
      [] h = "sha224" -> 28
      [] h = "sha256" -> 32
      [] h = "sha384" -> 48
      [] h = "sha512" -> 64

RECURSIVE Mix(_, _)
Mix(acc, s) ==
    IF acc >= 0 /\ s = <<>> THEN acc
    ELSE Mix((acc * 131 + Head(s) + 1) % 65521, Tail(s))

\* hmac.new(key, digestmod=h) fed with msg, then digest(): the stand-in
hmac_digest(h, k, msg) ==
    LET a == Mix(Mix(digest_size(h), k) + 7, msg)
    IN  [i \in 1..digest_size(h) |-> ((a \div 256) * i + a + i * i) % 256]

\* gssapi_context.get_signature(data) of an honest security context: stand-in
get_signature(handle, data) ==
    LET a == Mix(Mix(3, handle) + 11, data)
    IN  <<(a \div 256) % 256, a % 256, Len(data) % 256>>

-----------------------------------------------------------------------------
(* Key *)

\* Key.__init__ looking the algorithm up and refusing an unknown one
Key_checked(name, secret, algorithm) ==
    [raised |-> IF \E i \in 1..Len(_hashes) : NameEq(_hashes[i].alg, algorithm)
                THEN "" ELSE "NotImplementedError",
     key |-> [name |-> name, secret |-> secret, algorithm |-> algorithm]]

\* Key.__init__ with a pre-parsed name, a bytes secret and a Name algorithm:
\* the three fields are stored as given, nothing is looked up
Key(name, secret, algorithm) ==
    [raised |-> "",
     key |-> [name |-> name, secret |-> secret, algorithm |-> algorithm]]

-----------------------------------------------------------------------------
(* The engines.  A context object is a record: kind "hmac" (HMACTSig),     *)
(* "gss" (GSSTSig) or "none" (Python's None); secret is the HMAC key or    *)
(* the handle of the GSSAPI security context; data is what update() fed.   *)

NoCtx == [kind |-> "none", secret |-> <<>>, hash |-> "", size |-> 0, data |-> <<>>]

\* GSSTSig.__init__
GSSTSig(gssapi_context) ==
    [kind |-> "gss", secret |-> gssapi_context, hash |-> "gss-tsig", size |-> 0,
     data |-> <<>>]

\* HMACTSig.__init__
HMACTSig(k, algorithm) ==
    LET hit == {i \in 1..Len(_hashes) : NameEq(_hashes[i].alg, algorithm)}
    IN  IF hit = {}
        THEN [raised |-> "NotImplementedError", ctx |-> NoCtx]
        ELSE LET hashinfo == _hashes[CHOOSE i \in hit : TRUE]
             IN  [raised |-> "",
                  ctx |-> [kind |-> "hmac", secret |-> k, hash |-> hashinfo.hash,
                           size |-> hashinfo.size, data |-> <<>>]]

\* get_context
get_context(k) ==
    IF NameEq(k.algorithm, GSS_TSIG)
    THEN [raised |-> "", ctx |-> GSSTSig(k.secret)]
    ELSE HMACTSig(k.secret, k.algorithm)

\* HMACTSig.update and GSSTSig.update
update(ctx, data) == [ctx EXCEPT !.data = @ \o data]

\* HMACTSig.sign without the truncation
HMACTSig_sign_full(ctx) == hmac_digest(ctx.hash, ctx.secret, ctx.data)

\* HMACTSig.sign
HMACTSig_sign(ctx) ==
    LET digest == hmac_digest(ctx.hash, ctx.secret, ctx.data)
    IN  IF ctx.size # 0 THEN Slice(digest, 0, ctx.size \div 8) ELSE digest

\* hmac.compare_digest
compare_digest(a, b) == a = b

\* HMACTSig.verify comparing only as many bytes as were received
HMACTSig_verify_prefix(ctx, expected) ==
    LET mac == HMACTSig_sign(ctx)
    IN  IF ~compare_digest(Slice(mac, 0, Len(expected)), expected)
        THEN "BadSignature" ELSE ""

\* HMACTSig.verify: the exception raised, "" when it returns
HMACTSig_verify(ctx, expected) ==
    LET mac == HMACTSig_sign(ctx)
    IN  IF ~compare_digest(mac, expected) THEN "BadSignature" ELSE ""

\* GSSTSig.sign
GSSTSig_sign(ctx) == get_signature(ctx.secret, ctx.data)

\* What the injected security context does in verify_signature(data, token):
\*   "honest"  raises (an Exception) unless token is its signature of data
\*   "raise"   raises an exception derived from Exception
\*   "base"    raises an exception derived from BaseException only
\*   "false"   returns False: it reports an invalid token without raising
GssBehaviours == {"honest", "raise", "base", "false"}

verify_signature(handle, data, token, gss) ==
    CASE gss = "honest" ->
            IF token = get_signature(handle, data) THEN "" ELSE "GSSError"
      [] gss = "raise" -> "GSSError"
      [] gss = "base" -> "KeyboardInterrupt"
      [] gss = "false" -> ""

\* GSSTSig.verify without the try/except around the security context
GSSTSig_verify_bare(ctx, expected, gss) ==
    verify_signature(ctx.secret, ctx.data, expected, gss)

\* GSSTSig.verify: except Exception -> BadSignature; the value returned by
\* the security context is handed back and nothing looks at it
GSSTSig_verify(ctx, expected, gss) ==
    LET r == verify_signature(ctx.secret, ctx.data, expected, gss)
    IN  IF r = "GSSError" THEN "BadSignature" ELSE r

\* ctx.sign() and ctx.verify() dispatched on the engine
ctx_sign(ctx) ==
    IF ctx.kind = "gss" THEN GSSTSig_sign(ctx) ELSE HMACTSig_sign(ctx)

ctx_verify(ctx, expected, gss) ==
    IF ctx.kind = "gss" THEN GSSTSig_verify(ctx, expected, gss)
    ELSE HMACTSig_verify(ctx, expected)

-----------------------------------------------------------------------------
(* The digest builder *)

\* struct.pack('!HIH', upper_time, lower_time, fudge) with
\* upper_time = (time >> 32) & 0xffff and lower_time = time & 0xffffffff
time_encoded(time, fudge) ==
    PackH(((time \div 65536) \div 65536) % 65536) \o PackI(time) \o PackH(fudge)

\* first with the multi flag ignored
first_ctx_only(ctx, multi) == ctx.kind = "none"

\* first = not (ctx and multi)
first(ctx, multi) == ~(ctx.kind # "none" /\ multi)

\* the updates of _digest once the engine (gc, from get_context) and the
\* signing time t are known
digest_updates(wire, k, rdata, t, request_mac, ctx, is_first, gc) ==
    LET c0 == IF is_first
              THEN IF request_mac # <<>>
                   THEN update(update(gc.ctx, PackH(Len(request_mac))),
                               request_mac)
                   ELSE gc.ctx
              ELSE ctx
        c1 == update(update(c0, PackH(rdata.original_id)),
                     Slice(wire, 2, Len(wire)))
        c2 == IF is_first
              THEN update(update(update(c1, to_digestable(k.name)),
                                 PackH(ANY)), PackI(0))
              ELSE c1
    IN  IF t = None \/ Len(rdata.other) > 65535
        THEN [raised |-> IF t = None THEN "TypeError" ELSE "ValueError",
              ctx |-> c2]
        ELSE IF is_first
        THEN [raised |-> "",
              ctx |-> update(update(c2, to_digestable(k.algorithm)
                                        \o time_encoded(t, rdata.fudge)),
                             PackH(rdata.error) \o PackH(Len(rdata.other))
                                 \o rdata.other)]
        ELSE [raised |-> "", ctx |-> update(c2, time_encoded(t, rdata.fudge))]

\* what _digest leaves behind: the context after the updates (ctx), the
\* supplied context object as the call leaves it (supplied), and the number
\* of engines created
digest_result(ctx, is_first, u) ==
    [raised |-> u.raised, ctx |-> u.ctx,
     supplied |-> IF is_first THEN ctx ELSE u.ctx,
     created |-> IF is_first THEN 1 ELSE 0]

\* _digest
_digest(wire, k, rdata, time, request_mac, ctx, multi) ==
    IF first(ctx, multi) /\ get_context(k).raised # ""
    THEN [raised |-> get_context(k).raised, ctx |-> NoCtx, supplied |-> ctx,
          created |-> 0]
    ELSE digest_result(ctx, first(ctx, multi),
             digest_updates(wire, k, rdata,
                            IF time = None THEN rdata.time_signed ELSE time,
                            request_mac, ctx, first(ctx, multi), get_context(k)))

\* the context _maybe_start_digest starts on the engine gc
start_digest(gc, mac) ==
    IF gc.raised # ""
    THEN [raised |-> gc.raised, ctx |-> NoCtx, created |-> 0]
    ELSE [raised |-> "", ctx |-> update(update(gc.ctx, PackH(Len(mac))), mac),
          created |-> 1]

\* _maybe_start_digest
_maybe_start_digest(k, mac, multi) ==
    IF multi THEN start_digest(get_context(k), mac)
    ELSE [raised |-> "", ctx |-> NoCtx, created |-> 0]

-----------------------------------------------------------------------------
(* sign and validate *)

\* dns.rdtypes.ANY.TSIG.TSIG(ANY, TSIG, algorithm, time_signed, fudge, mac,
\*                           original_id, error, other)
TSIG(algorithm, time_signed, fudge, mac, original_id, error, other) ==
    [algorithm |-> algorithm, time_signed |-> time_signed, fudge |-> fudge,
     mac |-> mac, original_id |-> original_id, error |-> error, other |-> other]

NoTsig == TSIG(<<>>, None, 0, <<>>, 0, 0, <<>>)

\* a call that raised: nothing is returned
Raise(exc, supplied, created, digested) ==
    [raised |-> exc, tsig |-> NoTsig, ctx |-> NoCtx, supplied |-> supplied,
     created |-> created, digested |-> digested]

\* what sign returns once the digest d, the MAC and the continuation m are
\* there
sign_return(k, rdata, time, d, mac, m) ==
    IF m.raised # "" THEN Raise(m.raised, d.supplied, d.created, d.ctx.data)
    ELSE [raised |-> "",
          tsig |-> TSIG(k.algorithm, time, rdata.fudge, mac, rdata.original_id,
                        rdata.error, rdata.other),
          ctx |-> m.ctx, supplied |-> d.supplied,
          created |-> d.created + m.created, digested |-> d.ctx.data]

\* sign after _digest returned d
sign_digested(k, rdata, time, multi, d) ==
    IF d.raised # "" THEN Raise(d.raised, d.supplied, d.created, <<>>)
    ELSE sign_return(k, rdata, time, d, ctx_sign(d.ctx),
                     _maybe_start_digest(k, ctx_sign(d.ctx), multi))

\* sign: the record and the continuation context it returns (tsig, ctx), the
\* supplied context object afterwards, the engines created, and the bytes
\* the engine had been fed when ctx.sign() ran (digested)
sign(wire, k, rdata, time, request_mac, ctx, multi) ==
    sign_digested(k, rdata, time, multi,
                  _digest(wire, k, rdata, time, request_mac, ctx, multi))

\* new_wire with the additional-record count left as it arrived
new_wire_same_count(wire, adcount, tsig_start) == Slice(wire, 0, tsig_start)

\* wire[0:10] + struct.pack("!H", adcount) + wire[12:tsig_start]
new_wire(wire, adcount, tsig_start) ==
    Slice(wire, 0, 10) \o PackH(adcount) \o Slice(wire, 12, tsig_start)

\* peer_error with the codes of BADSIG and BADKEY taken for each other
peer_error_swapped(error) ==
    CASE error = BADKEY -> "PeerBadSignature"
      [] error = BADSIG -> "PeerBadKey"
      [] error = BADTIME -> "PeerBadTime"
      [] error = BADTRUNC -> "PeerBadTruncation"
      [] OTHER -> "PeerError"

\* the peer error raised for a nonzero rdata.error
peer_error(error) ==
    CASE error = BADSIG -> "PeerBadSignature"
      [] error = BADKEY -> "PeerBadKey"
      [] error = BADTIME -> "PeerBadTime"
      [] error = BADTRUNC -> "PeerBadTruncation"
      [] OTHER -> "PeerError"

\* validate_checks with the owner compared before the time
validate_checks_owner_first(wire, k, owner, rdata, now) ==
    IF UnpackH(Slice(wire, 10, 12)) = 0 THEN "FormError"
    ELSE IF rdata.error # 0 THEN peer_error(rdata.error)
    ELSE IF ~NameEq(k.name, owner) THEN "BadKey"
    ELSE IF rdata.time_signed = None THEN "TypeError"
    ELSE IF abs(rdata.time_signed - now) > rdata.fudge THEN "BadTime"
    ELSE IF ~NameEq(k.algorithm, rdata.algorithm) THEN "BadAlgorithm"
    ELSE ""

\* validate_checks with the time window one second too narrow
validate_checks_narrow(wire, k, owner, rdata, now) ==
    IF UnpackH(Slice(wire, 10, 12)) = 0 THEN "FormError"
    ELSE IF rdata.error # 0 THEN peer_error(rdata.error)
    ELSE IF rdata.time_signed = None THEN "TypeError"
    ELSE IF abs(rdata.time_signed - now) >= rdata.fudge THEN "BadTime"
    ELSE IF ~NameEq(k.name, owner) THEN "BadKey"
    ELSE IF ~NameEq(k.algorithm, rdata.algorithm) THEN "BadAlgorithm"
    ELSE ""

\* the checks validate makes before it digests anything: the exception of
\* the first one that fails, "" when all pass
validate_checks(wire, k, owner, rdata, now) ==
    IF UnpackH(Slice(wire, 10, 12)) = 0 THEN "FormError"
    ELSE IF rdata.error # 0 THEN peer_error(rdata.error)
    ELSE IF rdata.time_signed = None THEN "TypeError"
    ELSE IF abs(rdata.time_signed - now) > rdata.fudge THEN "BadTime"
    ELSE IF ~NameEq(k.name, owner) THEN "BadKey"
    ELSE IF ~NameEq(k.algorithm, rdata.algorithm) THEN "BadAlgorithm"
    ELSE ""

\* what validate returns once the digest d, the outcome v of ctx.verify and
\* the continuation m are there
validate_return(d, v, m) ==
    IF v # "" THEN Raise(v, d.supplied, d.created, d.ctx.data)
    ELSE IF m.raised # "" THEN Raise(m.raised, d.supplied, d.created, d.ctx.data)
    ELSE [raised |-> "", tsig |-> NoTsig, ctx |-> m.ctx, supplied |-> d.supplied,
          created |-> d.created + m.created, digested |-> d.ctx.data]

\* validate after _digest returned d
validate_digested(k, rdata, multi, gss, d) ==
    IF d.raised # "" THEN Raise(d.raised, d.supplied, d.created, <<>>)
    ELSE validate_return(d, ctx_verify(d.ctx, rdata.mac, gss),
                         _maybe_start_digest(k, rdata.mac, multi))

\* validate after its checks gave failed; gss is what the security context
\* does if it is asked to verify
validate_checked(wire, k, rdata, request_mac, tsig_start, ctx, multi, gss, failed) ==
    IF failed # "" THEN Raise(failed, ctx, 0, <<>>)
    ELSE validate_digested(k, rdata, multi, gss,
             _digest(new_wire(wire, UnpackH(Slice(wire, 10, 12)) - 1, tsig_start),
                     k, rdata, None, request_mac, ctx, multi))

\* validate
validate(wire, k, owner, rdata, now, request_mac, tsig_start, ctx, multi, gss) ==
    validate_checked(wire, k, rdata, request_mac, tsig_start, ctx, multi, gss,
                     validate_checks(wire, k, owner, rdata, now))

-----------------------------------------------------------------------------
(* The message layer around sign and validate (dns.message / dns.renderer) *)

\* a DNS message: the 12-byte header and the sections
MakeWire(id, adcount, body) ==
    PackH(id) \o <<1, 0, 0, 1, 0, 0, 0, 0>> \o PackH(adcount) \o body

\* the signed message as it travels: the TSIG record appended to the
\* additional section, the additional-record count incremented, and the
\* message ID possibly rewritten on the way (id)
wire_with_tsig(wire, k, tsig, id) ==
    PackH(id) \o Slice(wire, 2, 10) \o PackH(UnpackH(Slice(wire, 10, 12)) + 1)
        \o Slice(wire, 12, Len(wire))
        \o to_digestable(k.name) \o PackH(250) \o PackH(ANY) \o PackI(0)
        \o tsig.mac

-----------------------------------------------------------------------------
(* Inputs *)

K1 == <<<<107, 49>>, <<>>>>         \* k1.
K1upper == <<<<75, 49>>, <<>>>>     \* K1.
K2 == <<<<107, 50>>, <<>>>>         \* k2.

\* hmac-sha3. : not a TSIG algorithm
HMAC_SHA3 == <<<<104, 109, 97, 99, 45, 115, 104, 97, 51>>, <<>>>>
\* HMAC-SHA256. : hmac-sha256 in upper case
HMAC_SHA256_upper == <<<<72, 77, 65, 67, 45, 83, 72, 65, 50, 53, 54>>, <<>>>>

HmacAlgorithms ==
    {HMAC_MD5, HMAC_SHA1, HMAC_SHA224, HMAC_SHA256, HMAC_SHA256_128, HMAC_SHA384,
     HMAC_SHA384_192, HMAC_SHA512, HMAC_SHA512_256}

WellKnown == HmacAlgorithms \cup {GSS_TSIG}

Supported(algorithm) == \E a \in WellKnown : NameEq(a, algorithm)

Secrets == {<<1, 2, 3>>}

Wires ==
    {MakeWire(4660, 0, <<3, 119, 119, 119, 0, 0, 1, 0, 1>>),
     MakeWire(301, 1, <<0, 0, 41, 16, 0, 0, 0, 0, 0, 0, 0>>)}

\* the rdata fields handed to sign: fudge, original ID, error, other data
\* and time_signed are read, the other fields are not
RdataIn ==
    {TSIG(<<>>, 1600000000, 300, <<>>, 4660, 0, <<>>),
     TSIG(<<>>, 1600000000, 2, <<>>, 77, 0, <<5, 6>>),
     TSIG(<<>>, 1600000000, 300, <<>>, 4660, BADTIME,
          <<0, 0, 95, 94, 16, 100>>)}

SignTimes == {None, 1600000060}

RequestMacs == {<<>>, <<9, 8, 7, 6>>}

NoCall ==
    [op |-> "none", wire |-> <<>>, owner |-> <<>>, rdata |-> NoTsig, time |-> None,
     now |-> 0, request_mac |-> <<>>, tsig_start |-> 0, ctx |-> NoCtx,
     multi |-> FALSE, gss |-> ""]

NoRet == Raise("", NoCtx, 0, <<>>)

-----------------------------------------------------------------------------
(* The state machine *)

Init ==
    /\ key = Key(<<>>, <<>>, <<>>).key
    /\ pc = "start"
    /\ sctx = NoCtx
    /\ vctx = NoCtx
    /\ prev = <<>>
    /\ nsigned = 0
    /\ scall = NoCall
    /\ sret = NoRet
    /\ vcall = NoCall
    /\ vret = NoRet
    /\ eng = NoCtx
    /\ emac = [signed |-> FALSE, mac |-> <<>>, data |-> <<>>]

\* key = Key(name, secret, algorithm)
KeyInit(name, secret, algorithm) ==
    /\ pc = "start"
    /\ LET r == Key(name, secret, algorithm)
       IN  /\ key' = r.key
           /\ pc' = IF r.raised = "" THEN "ready" ELSE "failed"
    /\ UNCHANGED <<sctx, vctx, prev, nsigned, scall, sret, vcall, vret, eng, emac>>

\* the state after sign returned or raised r
SignDone(wire, rdata, time, request_mac, ctx, multi, r) ==
    /\ sret' = r
    /\ sctx' = IF r.raised = "" THEN r.ctx
               ELSE IF ctx.kind # "none" THEN r.supplied ELSE sctx
    /\ scall' = [NoCall EXCEPT !.op = "sign", !.wire = wire, !.rdata = rdata,
                               !.time = time, !.request_mac = request_mac,
                               !.ctx = ctx, !.multi = multi]
    /\ prev' = sret.tsig.mac
    /\ nsigned' = nsigned + 1
    /\ vcall' = NoCall
    /\ vret' = NoRet
    /\ UNCHANGED <<key, pc, vctx, eng, emac>>

\* (tsig, sctx) = sign(wire, key, rdata, time, request_mac, ctx, multi)
Sign(wire, rdata, time, request_mac, ctx, multi) ==
    /\ pc = "ready"
    /\ SignDone(wire, rdata, time, request_mac, ctx, multi,
                sign(wire, key, rdata, time, request_mac, ctx, multi))

\* the state after validate returned or raised r
ValidateDone(wire, owner, rdata, now, request_mac, tsig_start, ctx, multi, gss, r) ==
    /\ vret' = r
    /\ vctx' = IF r.raised = "" THEN r.ctx
               ELSE IF ctx.kind # "none" THEN r.supplied ELSE vctx
    /\ vcall' = [NoCall EXCEPT !.op = "validate", !.wire = wire, !.owner = owner,
                               !.rdata = rdata, !.now = now,
                               !.request_mac = request_mac,
                               !.tsig_start = tsig_start, !.ctx = ctx,
                               !.multi = multi, !.gss = gss]
    /\ UNCHANGED <<key, pc, sctx, prev, nsigned, scall, sret, eng, emac>>

\* vctx = validate(wire, key, owner, rdata, now, request_mac, tsig_start,
\*                 ctx, multi)
Validate(wire, owner, rdata, now, request_mac, tsig_start, ctx, multi, gss) ==
    /\ pc = "ready"
    /\ ValidateDone(wire, owner, rdata, now, request_mac, tsig_start, ctx, multi,
                    gss,
                    validate(wire, key, owner, rdata, now, request_mac,
                             tsig_start, ctx, multi, gss))

\* the time the signature was made over
SignedTime == IF scall.time = None THEN scall.rdata.time_signed ELSE scall.time

NowAround(t, fudge) == {t - fudge - 1, t - fudge, t, t + fudge, t + fudge + 1}

\* the receiver validates the message just signed, as it arrived: the owner
\* is the key's name in some spelling, the ID may have been rewritten
Receive(owner, ctx) ==
    /\ scall.op = "sign"
    /\ sret.raised = ""
    /\ vcall.op = "none"
    /\ nsigned = 1
    /\ \E id \in {UnpackH(Slice(scall.wire, 0, 2)), 9},
          now \in NowAround(SignedTime, scall.rdata.fudge) :
           Validate(wire_with_tsig(scall.wire, key, sret.tsig, id), owner,
                    sret.tsig, now, scall.request_mac, Len(scall.wire), ctx,
                    scall.multi, "honest")

\* the same for a later message of the exchange
ReceiveNext(ctx) ==
    /\ scall.op = "sign"
    /\ sret.raised = ""
    /\ vcall.op = "none"
    /\ nsigned > 1
    /\ Validate(wire_with_tsig(scall.wire, key, sret.tsig,
                               UnpackH(Slice(scall.wire, 0, 2))),
                key.name, sret.tsig, SignedTime, scall.request_mac,
                Len(scall.wire), ctx, scall.multi, "honest")

\* a signed message of somebody else arrives before anything was signed
ReceiveUnsigned(multi) ==
    /\ nsigned = 0
    /\ vcall.op = "none"
    /\ LET wire == MakeWire(4660, 0, <<3, 119, 119, 119, 0, 0, 1, 0, 1>>)
           rdata == TSIG(key.algorithm, 1600000000, 300, <<1, 2, 3, 4>>, 4660, 0,
                         <<>>)
       IN  Validate(wire_with_tsig(wire, key, rdata, 4660), key.name, rdata,
                    1600000000, <<>>, Len(wire), NoCtx, multi, "honest")

\* the first message of an exchange is signed
SignFirst(wire, rdata, time, request_mac, multi) ==
    /\ nsigned = 0
    /\ Sign(wire, rdata, time, request_mac, NoCtx, multi)

\* a later message of the exchange is signed with the context threaded
SignNext(wire, time) ==
    /\ nsigned >= 1
    /\ nsigned < MaxRounds
    /\ sret.raised = ""
    /\ sctx.kind # "none"
    /\ Sign(wire, scall.rdata, time, scall.request_mac, sctx, TRUE)

SpecAlgorithms == {HMAC_SHA256_upper, HMAC_SHA384_192, GSS_TSIG, HMAC_SHA3}

Next ==
    \/ \E name \in {K1}, secret \in Secrets, algorithm \in SpecAlgorithms :
           KeyInit(name, secret, algorithm)
    \/ \E wire \in Wires, rdata \in RdataIn, time \in SignTimes,
          request_mac \in RequestMacs, multi \in BOOLEAN :
           SignFirst(wire, rdata, time, request_mac, multi)
    \/ \E wire \in Wires, time \in SignTimes : SignNext(wire, time)
    \/ \E owner \in {K1, K1upper}, ctx \in {NoCtx, vctx} : Receive(owner, ctx)
    \/ \E ctx \in {NoCtx, vctx} : ReceiveNext(ctx)
    \/ \E multi \in BOOLEAN : ReceiveUnsigned(multi)

Spec == Init /\ [][Next]_vars

-----------------------------------------------------------------------------
(* A sequence of messages signed one after the other *)

ChainAlgorithms == {HMAC_SHA256_128, GSS_TSIG}

ChainRdata == TSIG(<<>>, 1600000000, 300, <<>>, 4660, 0, <<5, 6>>)

SignSeq(wire, time, request_mac, ctx, multi) ==
    /\ nsigned < MaxMsgs
    /\ Sign(wire, ChainRdata, time, request_mac, ctx, multi)

NextChain ==
    \/ \E algorithm \in ChainAlgorithms : KeyInit(K1, <<1, 2, 3>>, algorithm)
    \/ \E wire \in Wires, time \in {1600000060}, request_mac \in RequestMacs,
          ctx \in {NoCtx, sctx}, multi \in BOOLEAN :
           SignSeq(wire, time, request_mac, ctx, multi)

SpecChain == Init /\ [][NextChain]_vars

-----------------------------------------------------------------------------
(* A received message that may have been altered on the way *)

\* the MAC as it may arrive: intact, one bit flipped, shortened, extended,
\* or missing
Macs(mac) ==
    {mac,
     [mac EXCEPT ![1] = IF (@ % 2) = 0 THEN @ + 1 ELSE @ - 1],
     Slice(mac, 0, Len(mac) - 1),
     mac \o <<0>>,
     <<>>}

\* error codes a peer may send: none, the four TSIG errors, SERVFAIL, 23
Errors == {0, BADSIG, BADKEY, BADTIME, BADTRUNC, 2, 23}

\* a context the validating side may hold from an earlier message
HeldCtx(k) == _maybe_start_digest(k, <<9, 8, 7, 6>>, TRUE).ctx

SignOne(rdata, multi) ==
    /\ nsigned = 0
    /\ Sign(MakeWire(4660, 0, <<3, 119, 119, 119, 0, 0, 1, 0, 1>>), rdata,
            1600000060, <<>>, NoCtx, multi)

AlteredAlgorithms == {HMAC_SHA256, GSS_TSIG}

\* the receiver validates what arrived; the security context of a GSS key
\* behaves in any of the ways above
ReceiveAltered ==
    /\ scall.op = "sign"
    /\ sret.raised = ""
    /\ vcall.op = "none"
    /\ \E noadditional \in BOOLEAN, owner \in {K1, K1upper, K2},
          algorithm \in AlteredAlgorithms, error \in Errors, multi \in BOOLEAN,
          gss \in IF NameEq(key.algorithm, GSS_TSIG) THEN GssBehaviours
                  ELSE {"honest"},
          mac \in Macs(sret.tsig.mac),
          now \in NowAround(SignedTime, scall.rdata.fudge),
          ctx \in {NoCtx, HeldCtx(key)} :
           LET sent == wire_with_tsig(scall.wire, key, sret.tsig, 4660)
               wire == IF noadditional
                       THEN Slice(sent, 0, 10) \o PackH(0)
                                \o Slice(sent, 12, Len(sent))
                       ELSE sent
               rdata == [sret.tsig EXCEPT !.mac = mac, !.error = error,
                                          !.algorithm = algorithm]
           IN  Validate(wire, owner, rdata, now, scall.request_mac,
                        Len(scall.wire), ctx, multi, gss)

NextAltered ==
    \/ \E algorithm \in AlteredAlgorithms : KeyInit(K1, <<1, 2, 3>>, algorithm)
    \/ \E rdata \in {TSIG(<<>>, 1600000000, 300, <<>>, 4660, 0, <<>>),
                     TSIG(<<>>, 1600000000, 0, <<>>, 77, 0, <<5, 6>>)},
          multi \in BOOLEAN :
           SignOne(rdata, multi)
    \/ ReceiveAltered

SpecAltered == Init /\ [][NextAltered]_vars

-----------------------------------------------------------------------------
(* An HMAC engine used directly *)

Chunks == {<<0>>, <<1, 2>>, <<255, 254, 253>>}

\* eng = get_context(key)
EngineNew ==
    /\ pc = "ready"
    /\ eng.kind = "none"
    /\ get_context(key).raised = ""
    /\ eng' = get_context(key).ctx
    /\ UNCHANGED <<key, pc, sctx, vctx, prev, nsigned, scall, sret, vcall, vret,
                   emac>>

\* eng.update(data)
EngineUpdate(data) ==
    /\ eng.kind # "none"
    /\ Len(eng.data) + Len(data) <= MaxData
    /\ eng' = update(eng, data)
    /\ UNCHANGED <<key, pc, sctx, vctx, prev, nsigned, scall, sret, vcall, vret,
                   emac>>

\* emac = eng.sign()
EngineSign ==
    /\ eng.kind # "none"
    /\ emac' = [signed |-> TRUE, mac |-> ctx_sign(eng), data |-> eng.data]
    /\ UNCHANGED <<key, pc, sctx, vctx, prev, nsigned, scall, sret, vcall, vret,
                   eng>>

NextEngine ==
    \/ \E secret \in {<<1, 2, 3>>, <<>>}, algorithm \in HmacAlgorithms :
           KeyInit(K1, secret, algorithm)
    \/ EngineNew
    \/ \E data \in Chunks : EngineUpdate(data)
    \/ EngineSign

SpecEngine == Init /\ [][NextEngine]_vars

-----------------------------------------------------------------------------
(* Properties of validate on a message that may have been altered          *)
(* (SpecAltered)                                                           *)

Validated == vcall.op = "validate"

PeerErrors ==
    {"PeerBadSignature", "PeerBadKey", "PeerBadTime", "PeerBadTruncation",
     "PeerError"}

NoAdditional == vcall.wire[11] = 0 /\ vcall.wire[12] = 0

TimeSkew ==
    IF vcall.rdata.time_signed >= vcall.now
    THEN vcall.rdata.time_signed - vcall.now
    ELSE vcall.now - vcall.rdata.time_signed

OwnerDiffers == ~NameEq(vcall.owner, key.name)

AlgorithmDiffers == ~NameEq(vcall.rdata.algorithm, key.algorithm)

Continuation == vcall.multi /\ vcall.ctx.kind # "none"

\* the MAC that arrived is the one sign produced for this message, and the
\* message is digested as sign digested it
MacGenuine == vcall.rdata.mac = sret.tsig.mac /\ ~Continuation

\* the outcome the ordered checks of the claim give
FirstFailing ==
    IF NoAdditional THEN {"FormError"}
    ELSE IF vcall.rdata.error # 0 THEN PeerErrors
    ELSE IF TimeSkew > vcall.rdata.fudge THEN {"BadTime"}
    ELSE IF OwnerDiffers THEN {"BadKey"}
    ELSE IF AlgorithmDiffers THEN {"BadAlgorithm"}
    ELSE IF ~MacGenuine THEN {"BadSignature"}
    ELSE {""}

\* C1: validate's checks are ordered: no additional record, peer error,
\* time skew, owner, algorithm, MAC; the first one that fails decides the
\* error raised, and validate succeeds when none does (the security context
\* of a GSS key being an honest one).
C1_CheckOrder == (Validated /\ vcall.gss = "honest") => vret.raised \in FirstFailing

\* an owner mismatch and a time skew together, with the MAC intact: BadTime
C1_Witness ==
    /\ Validated
    /\ ~NoAdditional
    /\ vcall.rdata.error = 0
    /\ TimeSkew > vcall.rdata.fudge
    /\ OwnerDiffers
    /\ AlgorithmDiffers
    /\ MacGenuine
    /\ vret.raised = "BadTime"

\* the peer error of an error code
PeerErrorOf(error) ==
    IF error = 16 THEN "PeerBadSignature"
    ELSE IF error = 17 THEN "PeerBadKey"
    ELSE IF error = 18 THEN "PeerBadTime"
    ELSE IF error = 22 THEN "PeerBadTruncation"
    ELSE "PeerError"

\* C2: with at least one additional record, a nonzero error code in the
\* rdata raises the peer error of that code before any digest work: no
\* engine is created, a supplied context is fed nothing, whatever the MAC.
C2_PeerErrorFirst ==
    (Validated /\ ~NoAdditional /\ vcall.rdata.error # 0) =>
        /\ vret.raised = PeerErrorOf(vcall.rdata.error)
        /\ vret.created = 0
        /\ vret.digested = <<>>
        /\ vret.supplied = vcall.ctx
        /\ vret.ctx = NoCtx

\* BADKEY with an empty MAC and a live context supplied
C2_Witness ==
    /\ Validated
    /\ ~NoAdditional
    /\ vcall.rdata.error = 17
    /\ vcall.rdata.mac = <<>>
    /\ Continuation
    /\ vret.raised = "PeerBadKey"
    /\ vret.supplied = vcall.ctx

\* every check but the time check passes
OthersPass ==
    /\ Validated
    /\ vcall.gss = "honest"
    /\ ~NoAdditional
    /\ vcall.rdata.error = 0
    /\ ~OwnerDiffers
    /\ ~AlgorithmDiffers
    /\ MacGenuine

\* C7: with all other checks passing, validate succeeds whenever now is at
\* most fudge seconds before or after the signing time, and raises BadTime
\* whenever it is fudge + 1 seconds or more away.
C7_TimeWindow ==
    OthersPass =>
        /\ (TimeSkew <= vcall.rdata.fudge => vret.raised = "")
        /\ (TimeSkew >= vcall.rdata.fudge + 1 => vret.raised = "BadTime")

\* now is exactly fudge seconds after the signing time, and validate succeeds
C7_Witness ==
    /\ OthersPass
    /\ vcall.rdata.fudge > 0
    /\ vcall.now = vcall.rdata.time_signed + vcall.rdata.fudge
    /\ vret.raised = ""

\* validate would succeed on the message with the MAC sign produced
WouldSucceed ==
    /\ Validated
    /\ ~NoAdditional
    /\ vcall.rdata.error = 0
    /\ TimeSkew <= vcall.rdata.fudge
    /\ ~OwnerDiffers
    /\ ~AlgorithmDiffers
    /\ ~Continuation

\* C4: with an HMAC key, a message on which validate would succeed fails
\* with BadSignature as soon as the MAC differs from the one produced (a
\* bit flipped, shortened, extended), and no context is returned.
C4_TamperSensitive ==
    (WouldSucceed /\ ~NameEq(key.algorithm, GSS_TSIG)
                  /\ vcall.rdata.mac # sret.tsig.mac) =>
        /\ vret.raised = "BadSignature"
        /\ vret.ctx = NoCtx

\* the MAC arrived one byte short, in a multi-message validation
C4_Witness ==
    /\ WouldSucceed
    /\ ~NameEq(key.algorithm, GSS_TSIG)
    /\ vcall.multi
    /\ Len(vcall.rdata.mac) = Len(sret.tsig.mac) - 1
    /\ vret.raised = "BadSignature"

\* validate, with a GSS key, got as far as asking the security context
GssAsked ==
    /\ Validated
    /\ NameEq(key.algorithm, GSS_TSIG)
    /\ ~NoAdditional
    /\ vcall.rdata.error = 0
    /\ TimeSkew <= vcall.rdata.fudge
    /\ ~OwnerDiffers
    /\ ~AlgorithmDiffers

\* the security context raised an exception derived from Exception
GssRaised == vcall.gss = "raise" \/ (vcall.gss = "honest" /\ ~MacGenuine)

\* the security context did not accept the token, one way or another
GssRejected == GssRaised \/ vcall.gss = "base" \/ vcall.gss = "false"

\* C9 as stated: whenever the security context fails to validate the
\* token, by an exception of any kind or by reporting it otherwise,
\* validate fails with BadSignature.
C9_AnyFailureIsBadSignature ==
    (GssAsked /\ GssRejected) => vret.raised = "BadSignature"

\* C9, amended: an exception derived from Exception that the security
\* context raises becomes BadSignature; what the security context returns
\* is not looked at, so validate succeeds whenever it returns, and an
\* exception that is not derived from Exception propagates.
C9_ExceptionIsBadSignature ==
    GssAsked =>
        /\ (GssRaised => vret.raised = "BadSignature")
        /\ (vcall.gss = "false" => vret.raised = "")
        /\ (vcall.gss = "honest" /\ MacGenuine => vret.raised = "")
        /\ (vcall.gss = "base" => vret.raised = "KeyboardInterrupt")

\* the security context raised on the genuine token: BadSignature
C9_Witness ==
    /\ GssAsked
    /\ vcall.gss = "raise"
    /\ MacGenuine
    /\ vret.raised = "BadSignature"

-----------------------------------------------------------------------------
(* Properties of an exchange: sign, then validate what was signed (Spec)   *)

Signed == scall.op = "sign" /\ sret.raised = ""

\* C3: a message signed with error 0, with the TSIG record appended and the
\* additional-record count incremented, validates without error under the
\* same key, the key's name as owner, the record sign produced, the same
\* request MAC, the context of the same point of the sequence, and now
\* within fudge of the record's signing time; a continuation context is
\* returned exactly when multi is set.
C3_RoundTrip ==
    ( /\ Signed
      /\ Validated
      /\ scall.rdata.error = 0
      /\ vcall.rdata = sret.tsig
      /\ vcall.request_mac = scall.request_mac
      /\ vcall.ctx = scall.ctx
      /\ ~OwnerDiffers
      /\ sret.tsig.time_signed # None
      /\ TimeSkew <= sret.tsig.fudge ) =>
        /\ vret.raised = ""
        /\ (vret.ctx.kind # "none") = vcall.multi

\* the second message of a sequence, validated with the context threaded
C3_Witness ==
    /\ Signed
    /\ Validated
    /\ nsigned = 2
    /\ vcall.ctx.kind # "none"
    /\ vcall.ctx = scall.ctx
    /\ vcall.rdata = sret.tsig
    /\ vcall.request_mac # <<>>
    /\ vret.raised = ""
    /\ vret.ctx.kind # "none"

\* the bytes of the time/fudge block among the bytes sign digested: the last
\* eight of a continuation, else those before error, other length and other
TimeBlockAt ==
    IF scall.multi /\ scall.ctx.kind # "none"
    THEN Len(sret.digested) - 8
    ELSE Len(sret.digested) - 8 - 4 - Len(scall.rdata.other)

\* the signing time that was digested (its high 16 bits are 0 here)
DigestedTime ==
    LET b == Slice(sret.digested, TimeBlockAt + 2, TimeBlockAt + 6)
    IN  ((b[1] * 256 + b[2]) * 256 + b[3]) * 256 + b[4]

\* C10: the signing time in the record sign returns is the time that was
\* digested for the MAC, whether the time argument is given or omitted.
C10_RecordCarriesDigestedTime == Signed => sret.tsig.time_signed = DigestedTime

\* C6 as stated: no Key with an algorithm that is not one of the ten
\* well-known ones exists, construction fails for it.
C6_KeyAlgorithmSupported ==
    (pc # "start" /\ ~Supported(key.algorithm)) => pc = "failed"

\* validate got as far as the digest
ChecksPass ==
    /\ Validated
    /\ ~NoAdditional
    /\ vcall.rdata.error = 0
    /\ vcall.rdata.time_signed # None
    /\ TimeSkew <= vcall.rdata.fudge
    /\ ~OwnerDiffers
    /\ ~AlgorithmDiffers

\* C6, amended: constructing a Key succeeds whatever the algorithm name; an
\* algorithm that is not one of the ten well-known ones is reported as
\* NotImplementedError by sign, and by validate once its checks of the
\* message pass, and a well-known one never is.
C6_ReportedAtUse ==
    /\ pc # "failed"
    /\ (scall.op = "sign" =>
           (sret.raised = "NotImplementedError") = ~Supported(key.algorithm))
    /\ (ChecksPass =>
           (vret.raised = "NotImplementedError") = ~Supported(key.algorithm))

\* sign is the first to report hmac-sha3
C6_Witness ==
    /\ pc = "ready"
    /\ ~Supported(key.algorithm)
    /\ scall.op = "sign"
    /\ sret.raised = "NotImplementedError"

-----------------------------------------------------------------------------
(* Properties of a sequence of signed messages (SpecChain)                 *)

LenPrefixed(mac) == PackH(Len(mac)) \o mac

TimeFudge == time_encoded(SignedTime, scall.rdata.fudge)

\* what the first message of a sequence is digested from
FirstPayload ==
    (IF scall.request_mac # <<>> THEN LenPrefixed(scall.request_mac) ELSE <<>>)
        \o PackH(scall.rdata.original_id)
        \o Slice(scall.wire, 2, Len(scall.wire))
        \o to_digestable(key.name) \o PackH(255) \o PackI(0)
        \o to_digestable(key.algorithm)
        \o TimeFudge
        \o PackH(scall.rdata.error) \o PackH(Len(scall.rdata.other))
        \o scall.rdata.other

\* what a later message is digested from
LaterPayload ==
    LenPrefixed(prev)
        \o PackH(scall.rdata.original_id)
        \o Slice(scall.wire, 2, Len(scall.wire))
        \o TimeFudge

\* the MAC of a freshly created engine fed with payload
FreshMac(payload) == ctx_sign(update(get_context(key).ctx, payload))

Threaded == scall.multi /\ scall.ctx.kind # "none"

\* C5: a message signed with multi set and the context of the previous call
\* is digested from the length-prefixed MAC of the previous message, the
\* original ID, wire[2:] and the time/fudge block only; any other message
\* is digested from the full first-message payload; the MAC is the MAC of
\* a fresh engine fed with that payload.
C5_ContinuationPayload ==
    Signed =>
        IF Threaded
        THEN /\ sret.digested = LaterPayload
             /\ sret.tsig.mac = FreshMac(LaterPayload)
        ELSE /\ sret.digested = FirstPayload
             /\ sret.tsig.mac = FreshMac(FirstPayload)

\* the third message of a sequence, a request MAC passed along
C5_Witness ==
    /\ Signed
    /\ nsigned = 3
    /\ Threaded
    /\ prev # <<>>
    /\ scall.request_mac # <<>>
    /\ sret.ctx.kind # "none"

-----------------------------------------------------------------------------
(* Properties of an HMAC engine (SpecEngine)                               *)

\* the MAC length of each algorithm
MacLength(algorithm) ==
    CASE NameEq(algorithm, HMAC_SHA256_128) -> 16
      [] NameEq(algorithm, HMAC_SHA384_192) -> 24
      [] NameEq(algorithm, HMAC_SHA512_256) -> 32
      [] NameEq(algorithm, HMAC_MD5) -> 16
      [] NameEq(algorithm, HMAC_SHA1) -> 20
      [] NameEq(algorithm, HMAC_SHA224) -> 28
      [] NameEq(algorithm, HMAC_SHA256) -> 32
      [] NameEq(algorithm, HMAC_SHA384) -> 48
      [] NameEq(algorithm, HMAC_SHA512) -> 64

\* C8: whatever was fed to the engine, sign() returns 16 bytes for
\* hmac-sha256-128, 24 for hmac-sha384-192, 32 for hmac-sha512-256 and the
\* digest size of the primitive for the other algorithms, and these are the
\* leading bytes of the full digest.
C8_MacLength ==
    emac.signed =>
        /\ Len(emac.mac) = MacLength(key.algorithm)
        /\ emac.mac = SubSeq(hmac_digest(eng.hash, key.secret, emac.data), 1,
                             MacLength(key.algorithm))

\* hmac-sha384-192 after several updates
C8_Witness ==
    /\ emac.signed
    /\ NameEq(key.algorithm, HMAC_SHA384_192)
    /\ Len(emac.data) >= 3
    /\ Len(emac.mac) = 24

=============================================================================
